---- MODULE Spec2Model ----
(***************************************************************************)
(* Revenue-recovery incoming webhook flow                                  *)
(* (crates/router/src/core/webhooks/recovery_incoming.rs).                 *)
(*                                                                         *)
(* One webhook delivery is one call of recovery_incoming_webhook_flow.     *)
(* Every await on a collaborator (billing connector sync, payments core,   *)
(* merchant connector account store, schedule-time provider, process       *)
(* tracker) is one step of the delivery; the code between two awaits runs  *)
(* inside the step that follows the first of them. A local of the flow     *)
(* holds its value from its assignment until the step after the one that   *)
(* last reads it (None before and after); a flow that returns keeps what   *)
(* it held at the return.                                                  *)
(***************************************************************************)
EXTENDS Integers, Sequences, FiniteSets, TLC

(* ------------------------------ bounds -------------------------------- *)

\* Webhook deliveries handled one after another.
MaxDeliveries == 2
\* Merchant retry thresholds range over 0..MaxRetry; intent retry counts over
\* the same range and the largest u16.
MaxRetry == 1
\* Attempts the system's own payment flow makes between deliveries.
MaxInternalAttempts == 1

(* ------------------------------ values -------------------------------- *)

\* Option<T>: None is the empty sequence, Some(x) the one-element sequence.
None == << >>
Some(x) == << x >>
IsSome(o) == o # None
Unwrap(o) == o[1]
OptionOf(S) == {None} \cup {Some(x) : x \in S}

\* Merchant reference ids carried by invoices, in the order deliveries first
\* name them.
MerchantReferenceIds == << "inv_1", "inv_2" >>
\* Connector transaction ids carried by transactions.
ConnectorTransactionIds == {"txn_42"}
\* common_enums::AttemptStatus values a billing connector reports.
AttemptStatuses == {"Failure", "Charged"}
\* u16 values: the merchant retry thresholds and the intent retry counts.
RetryThresholds == 0..MaxRetry
RetryCounts == RetryThresholds \cup {65535}
\* webhooks::IncomingWebhookEvent: the four recovery events and one
\* representative of every other event.
IncomingWebhookEvents ==
    {"RecoveryPaymentFailure", "RecoveryPaymentSuccess", "RecoveryPaymentPending",
     "RecoveryInvoiceCancel", "PaymentIntentFailure"}
\* revenue_recovery::RecoveryAction.
RecoveryActions ==
    {"CancelInvoice", "ScheduleFailedPayment", "SuccessPaymentExternal",
     "PendingPayment", "NoAction", "InvalidAction"}

\* The id the billing connector account carries, the merchant and the profile.
BillingMcaId == "mca_billing"
MerchantId == "merchant_1"
ProfileId == "profile_1"

\* IntentStatus::from(AttemptStatus), used for the intent refreshed by a
\* recorded attempt.
IntentStatusFrom(attempt_status) ==
    CASE attempt_status = "Failure" -> "Failed"
      [] attempt_status = "Charged" -> "Succeeded"
      [] OTHER -> "Processing"
\* Statuses the payments core reports for an intent it looks up.
IntentStatuses == {"RequiresPaymentMethod", "Failed"}

\* Feature metadata is carried through the flow unread until the retry count
\* is taken from it at classification: it is named by the response that
\* supplied it, and the count it holds is chosen where it is read.
FetchedMetadata == "payments_response.feature_metadata"
CreatedMetadata == "create_intent_response.feature_metadata"
RecordedMetadata == "attempt_response.payment_intent_feature_metadata"

(* ------------------------------- state -------------------------------- *)

VARIABLES
    flow,            \* the delivery in progress: its position and its locals
    intents,         \* payment intents held by the payments core
    attempts,        \* payment attempts held by the payments core
    process_tracker, \* rows of the process tracker (the durable task store)
    tasks_added,     \* metrics::TASKS_ADDED_COUNT
    deliveries,      \* webhook deliveries received so far
    other            \* another delivery's flow: one parked at an await while
                     \* `flow` runs, or the one that returned before `flow`

vars == << flow, intents, attempts, process_tracker, tasks_added, deliveries,
           other >>
store == << intents, attempts, process_tracker, tasks_added >>

\* WebhookResponseTracker / RevenueRecoveryError / panic, as one record shape.
NoResult == [kind |-> "None", payment_id |-> 0, status |-> "", error |-> ""]
NoEffect == [kind |-> "NoEffect", payment_id |-> 0, status |-> "", error |-> ""]
Payment(id, st) == [kind |-> "Payment", payment_id |-> id, status |-> st, error |-> ""]
Failed(e) == [kind |-> "Err", payment_id |-> 0, status |-> "", error |-> e]
Panicked == [kind |-> "Panic", payment_id |-> 0, status |-> "", error |-> ""]

\* The locals of recovery_incoming_webhook_flow before the call.
IdleFlow ==
    [pc |-> "idle",
     source_verified |-> FALSE,
     should_billing_connector_payment_api_called |-> None,
     billing_connector_payment_details |-> None,
     invoice_details |-> None,
     payment_response |-> None,
     payment_intent |-> None,
     is_event_recovery_transaction_event |-> None,
     event_type |-> None,
     invoice_transaction_details |-> None,
     payments_response |-> None,
     payment_merchant_connector_account |-> None,
     recovery_attempt |-> None,
     recovery_intent |-> None,
     action |-> None,
     mca_retry_threshold |-> None,
     intent_retry_count |-> None,
     schedule_attempt_number |-> None,
     schedule_time |-> None,
     process_tracker_entry |-> None,
     result |-> NoResult,
     calls |-> << >>]

Init ==
    /\ flow = IdleFlow
    /\ intents = << >>
    /\ attempts = << >>
    /\ process_tracker = << >>
    /\ tasks_added = 0
    /\ deliveries = 0
    /\ other = IdleFlow

\* The flow returns `r` to its caller.
Return(r) == [flow EXCEPT !.pc = "done", !.result = r]
\* The operation invoked a second time before the flow returns `r`.
ReturnAfter_retried(op, r) ==
    [flow EXCEPT !.pc = "done", !.result = r, !.calls = Append(Append(@, op), op)]
\* The flow returns `r` after having invoked collaborator operation `op`.
ReturnAfter(op, r) ==
    [flow EXCEPT !.pc = "done", !.result = r, !.calls = Append(@, op)]

(* ----------------------- receive and authenticate --------------------- *)

\* The HTTP layer calls the flow with the precomputed source_verified flag.
Receive ==
    /\ flow.pc = "idle"
    /\ deliveries < MaxDeliveries
    /\ \E sv \in BOOLEAN :
          flow' = [IdleFlow EXCEPT !.pc = "received", !.source_verified = sv]
    /\ deliveries' = deliveries + 1
    /\ UNCHANGED << store, other >>

\* The source check skipped: only the connector name is parsed.
source_verification_skipped(source_verified, connector_parses) ==
    IF ~connector_parses THEN "InvoiceWebhookProcessingFailed" ELSE ""

\* when(!source_verified) => WebhookAuthenticationFailed; then the connector
\* name is parsed (Connector::from_str). The error that ends the flow, or "".
source_verification(source_verified, connector_parses) ==
    IF ~source_verified THEN "WebhookAuthenticationFailed"
    ELSE IF ~connector_parses THEN "InvoiceWebhookProcessingFailed"
    ELSE ""

\* The flow up to its first await.
Authenticate ==
    /\ flow.pc = "received"
    /\ \E connector_parses \in BOOLEAN :
          LET error == source_verification(flow.source_verified, connector_parses)
          IN flow' = IF error # "" THEN Return(Failed(error))
                     ELSE [flow EXCEPT !.pc = "authenticated"]
    /\ UNCHANGED << store, deliveries, other >>

\* The flow has returned; its locals are gone.
Finish ==
    /\ flow.pc = "done"
    /\ flow' = IdleFlow
    /\ UNCHANGED << store, deliveries, other >>

(* ---------------------- billing connector sync ------------------------ *)

\* Merchant reference ids of the intents the store holds.
KnownReferences == {intents[i].merchant_reference_id : i \in 1..Len(intents)}

\* Reference ids are interchangeable: a delivery names a reference the store
\* already holds, or the first one it does not hold yet.
DeliveredReferences ==
    LET new == {k \in 1..Len(MerchantReferenceIds) :
                  MerchantReferenceIds[k] \notin KnownReferences}
    IN KnownReferences
       \cup {MerchantReferenceIds[k] : k \in {j \in new : \A q \in new : j <= q}}

\* BillingConnectorPaymentsSyncResponse: what the billing connector's payments
\* API reports about the invoice and its transaction.
SyncResponses ==
    [merchant_reference_id : DeliveredReferences,
     connector_transaction_id : OptionOf(ConnectorTransactionIds),
     status : AttemptStatuses,
     connector_account_reference_id : {"acct_mapped", "acct_unmapped"}]

\* How a sync call ends: the object reference holds no connector transaction
\* id, the request cannot be built (connector data, auth type, router data),
\* the outbound call or its response fails, or a response arrives.
SyncOutcomes ==
    {[called |-> FALSE, response |-> None], [called |-> TRUE, response |-> None]}
    \cup {[called |-> TRUE, response |-> Some(d)] : d \in SyncResponses}

\* The outbound call made whether or not the connector requires it.
get_billing_connector_payment_details_always_called(should_billing_connector_payment_api_called, o) ==
    [called |-> o.called, ok |-> IsSome(o.response), response |-> o.response]

\* get_billing_connector_payment_details with
\* handle_billing_connector_payment_sync_call, for the way `o` a sync call
\* ends: without the flag Ok(None) and no call; with it the call's response,
\* or BillingConnectorPaymentsSyncFailed from before or after the call.
get_billing_connector_payment_details(should_billing_connector_payment_api_called, o) ==
    IF ~should_billing_connector_payment_api_called
      THEN [called |-> FALSE, ok |-> TRUE, response |-> None]
      ELSE [called |-> o.called, ok |-> IsSome(o.response), response |-> o.response]

\* The sync step of the flow: the call is made only when the connector is one
\* of billing_connectors_which_require_payment_sync.
GetBillingConnectorPaymentDetails ==
    /\ flow.pc = "authenticated"
    /\ \E should_billing_connector_payment_api_called \in BOOLEAN, o \in SyncOutcomes :
          LET r == get_billing_connector_payment_details(
                       should_billing_connector_payment_api_called, o)
              decided == [flow EXCEPT !.should_billing_connector_payment_api_called =
                                         Some(should_billing_connector_payment_api_called)]
              synced == IF r.called
                          THEN [decided EXCEPT !.calls = Append(@, "billing_sync")]
                          ELSE decided
          IN flow' =
               IF ~r.ok
                 THEN [synced EXCEPT !.pc = "done",
                         !.result = Failed("BillingConnectorPaymentsSyncFailed")]
                 ELSE [synced EXCEPT !.pc = "sync_fetched",
                         !.billing_connector_payment_details = r.response]
    /\ UNCHANGED << store, deliveries, other >>

(* ------------------------- invoice and intent ------------------------- *)

\* RevenueRecoveryInvoiceData, reduced to the field the flow reads.
InvoiceDatas == [merchant_reference_id : DeliveredReferences]

\* RevenueRecoveryInvoiceData::from(&BillingConnectorPaymentsSyncResponse).
InvoiceDataFrom(data) == [merchant_reference_id |-> data.merchant_reference_id]

\* The sync response ignored: the raw webhook body is always parsed.
get_recovery_invoice_details_from_webhook(billing_connector_payment_details) ==
    {[called |-> TRUE, details |-> None]}
    \cup {[called |-> TRUE, details |-> Some(d)] : d \in InvoiceDatas}

\* get_recovery_invoice_details: the sync response when there is one, else
\* the connector's parse of the raw webhook body, which may fail.
\* `called` says whether the connector's parser was invoked.
get_recovery_invoice_details(billing_connector_payment_details) ==
    IF IsSome(billing_connector_payment_details)
      THEN {[called |-> FALSE,
             details |-> Some(InvoiceDataFrom(Unwrap(billing_connector_payment_details)))]}
      ELSE {[called |-> TRUE, details |-> None]}
           \cup {[called |-> TRUE, details |-> Some(d)] : d \in InvoiceDatas}

\* A RecoveryPaymentIntent.
RecoveryPaymentIntent(id, st, fm) ==
    [payment_id |-> id, status |-> st, feature_metadata |-> fm]

\* Responses of the payments core, as the flow's match arms tell them apart.
Response(kind, body) == [kind |-> kind, body |-> body]

\* Intents of the store with a merchant reference id.
IntentsWithReference(ref) ==
    {i \in 1..Len(intents) : intents[i].merchant_reference_id = ref}

\* payments_get_intent_using_merchant_reference: an intent of the store with
\* that reference, with whatever status and retry metadata it has by now;
\* PaymentNotFound when the store holds none; or another failure.
payments_get_intent_using_merchant_reference(ref) ==
    {Response("JsonWithHeaders", Some(RecoveryPaymentIntent(i, st, FetchedMetadata))) :
        i \in IntentsWithReference(ref), st \in IntentStatuses}
    \cup (IF IntentsWithReference(ref) = {}
            THEN {Response("PaymentNotFound", None)} ELSE {})
    \cup {Response("OtherResponse", None), Response("OtherError", None)}

\* Every failed lookup taken for PaymentNotFound.
get_payment_intent_any_error_not_found(payment_response) ==
    CASE payment_response.kind = "JsonWithHeaders" ->
           [ok |-> TRUE, intent |-> payment_response.body]
      [] payment_response.kind \in {"PaymentNotFound", "OtherError"} ->
           [ok |-> TRUE, intent |-> None]
      [] OTHER -> [ok |-> FALSE, intent |-> None]

\* A response of an unexpected shape taken for PaymentNotFound.
get_payment_intent_other_response_not_found(payment_response) ==
    CASE payment_response.kind = "JsonWithHeaders" ->
           [ok |-> TRUE, intent |-> payment_response.body]
      [] payment_response.kind \in {"PaymentNotFound", "OtherResponse"} ->
           [ok |-> TRUE, intent |-> None]
      [] OTHER -> [ok |-> FALSE, intent |-> None]

\* The match of get_payment_intent: Ok(Some(intent)), Ok(None) or the
\* intent-fetch error.
get_payment_intent(payment_response) ==
    CASE payment_response.kind = "JsonWithHeaders" ->
           [ok |-> TRUE, intent |-> payment_response.body]
      [] payment_response.kind = "PaymentNotFound" ->
           [ok |-> TRUE, intent |-> None]
      [] OTHER -> [ok |-> FALSE, intent |-> None]

\* get_recovery_invoice_details, then get_payment_intent.
GetPaymentIntent ==
    /\ flow.pc = "sync_fetched"
    /\ \E inv \in get_recovery_invoice_details(flow.billing_connector_payment_details) :
        LET synced == [flow EXCEPT !.should_billing_connector_payment_api_called = None]
            extracted == IF inv.called
                           THEN [synced EXCEPT !.calls = Append(@, "extract_invoice_details")]
                           ELSE synced
        IN
        IF inv.details = None
          THEN flow' = [extracted EXCEPT !.pc = "done",
                          !.result = Failed("InvoiceWebhookProcessingFailed")]
          ELSE \E payment_response \in
                    payments_get_intent_using_merchant_reference(
                        Unwrap(inv.details).merchant_reference_id) :
                 LET r == get_payment_intent(payment_response)
                     fetched == [extracted EXCEPT !.invoice_details = inv.details,
                                                  !.payment_response = Some(payment_response),
                                                  !.calls = Append(@, "fetch_intent")]
                 IN flow' =
                      IF ~r.ok
                        THEN [fetched EXCEPT !.pc = "done",
                                !.result = Failed("PaymentIntentFetchFailed")]
                      ELSE IF IsSome(r.intent)
                        THEN [fetched EXCEPT !.pc = "intent_resolved",
                                             !.payment_intent = r.intent]
                      ELSE [fetched EXCEPT !.pc = "create_intent"]
    /\ UNCHANGED << store, deliveries, other >>

\* payments_intent_core(PaymentIntentCreate): a new intent under a freshly
\* generated global id, or a failure, or a response that is no JSON body.
payments_intent_core_create ==
    {Response("Json", Some(RecoveryPaymentIntent(Len(intents) + 1,
                                                  "RequiresPaymentMethod",
                                                  CreatedMetadata))),
     Response("OtherResponse", None), Response("OtherError", None)}

\* The intent the payments core stores for a creation it carried out.
StoredIntent(id, ref) == [payment_id |-> id, merchant_reference_id |-> ref]

\* create_payment_intent guarded by a second lookup: an intent the store holds
\* by now under the reference is adopted instead of a new one being created.
CreatePaymentIntent_after_second_lookup ==
    /\ flow.pc = "create_intent"
    /\ LET held == IntentsWithReference(
                       Unwrap(flow.invoice_details).merchant_reference_id)
       IN \E create_intent_response \in payments_intent_core_create :
            /\ intents' =
                 IF held # {} \/ create_intent_response.kind = "OtherError"
                   THEN intents
                   ELSE Append(intents,
                          StoredIntent(Len(intents) + 1,
                                       Unwrap(flow.invoice_details).merchant_reference_id))
            /\ flow' =
                 IF held # {}
                   THEN [flow EXCEPT !.pc = "intent_resolved",
                                     !.payment_response = None,
                                     !.payment_intent =
                                        Some(RecoveryPaymentIntent(
                                               CHOOSE i \in held : TRUE,
                                               "RequiresPaymentMethod", FetchedMetadata)),
                                     !.calls = Append(@, "create_intent")]
                 ELSE IF create_intent_response.kind = "Json"
                   THEN [flow EXCEPT !.pc = "intent_resolved",
                                     !.payment_response = None,
                                     !.payment_intent = create_intent_response.body,
                                     !.calls = Append(@, "create_intent")]
                 ELSE [ReturnAfter("create_intent", Failed("PaymentIntentCreateFailed"))
                         EXCEPT !.payment_response = None]
    /\ UNCHANGED << attempts, process_tracker, tasks_added, deliveries, other >>

\* create_payment_intent, reached only when get_payment_intent returned None
\* (transpose().async_unwrap_or_else). A core that answers Ok has created the
\* intent, also when its answer is not the JSON body the flow expects.
CreatePaymentIntent ==
    /\ flow.pc = "create_intent"
    /\ \E create_intent_response \in payments_intent_core_create :
        /\ intents' =
             IF create_intent_response.kind = "OtherError"
               THEN intents
               ELSE Append(intents,
                      StoredIntent(Len(intents) + 1,
                                   Unwrap(flow.invoice_details).merchant_reference_id))
        /\ flow' =
             IF create_intent_response.kind = "Json"
               THEN [flow EXCEPT !.pc = "intent_resolved",
                                 !.payment_response = None,
                                 !.payment_intent = create_intent_response.body,
                                 !.calls = Append(@, "create_intent")]
               ELSE [ReturnAfter("create_intent", Failed("PaymentIntentCreateFailed"))
                       EXCEPT !.payment_response = None]
    /\ UNCHANGED << attempts, process_tracker, tasks_added, deliveries, other >>

(* ------------------------------ attempt ------------------------------- *)

\* IncomingWebhookEvent::is_recovery_transaction_event.
is_recovery_transaction_event(event_type) ==
    event_type \in {"RecoveryPaymentFailure", "RecoveryPaymentSuccess",
                    "RecoveryPaymentPending"}

\* RevenueRecoveryAttemptData, reduced to the fields the flow reads.
AttemptDatas ==
    [connector_transaction_id : OptionOf(ConnectorTransactionIds),
     status : AttemptStatuses,
     connector_account_reference_id : {"acct_mapped", "acct_unmapped"}]

\* RevenueRecoveryAttemptData::from(&BillingConnectorPaymentsSyncResponse).
AttemptDataFrom(data) ==
    [connector_transaction_id |-> data.connector_transaction_id,
     status |-> data.status,
     connector_account_reference_id |-> data.connector_account_reference_id]

\* get_recovery_invoice_transaction_details: the sync response when there is
\* one, else the connector's parse of the raw webhook body, which may fail.
get_recovery_invoice_transaction_details(billing_connector_payment_details) ==
    IF IsSome(billing_connector_payment_details)
      THEN {[called |-> FALSE,
             details |-> Some(AttemptDataFrom(Unwrap(billing_connector_payment_details)))]}
      ELSE {[called |-> TRUE, details |-> None]}
           \cup {[called |-> TRUE, details |-> Some(d)] : d \in AttemptDatas}

\* MerchantConnectorAccount::
\* get_payment_merchant_connector_account_id_using_account_reference_id: the
\* billing account's reference-to-account mapping.
get_payment_merchant_connector_account_id(connector_account_reference_id) ==
    IF connector_account_reference_id = "acct_mapped" THEN Some("mca_pay") ELSE None

\* The store looked up for every attempt, under a default account id when the
\* billing account maps none.
find_payment_merchant_connector_account_always_looked_up(attempt_data, found) ==
    IF found THEN [called |-> TRUE, ok |-> TRUE, account |-> Some("mca_pay")]
    ELSE [called |-> TRUE, ok |-> FALSE, account |-> None]

\* find_payment_merchant_connector_account: no store lookup without a mapped
\* id; a failed lookup is PaymentMerchantConnectorAccountNotFound.
\* `found` is the answer of db.find_merchant_connector_account_by_id.
find_payment_merchant_connector_account(attempt_data, found) ==
    LET mca_id == get_payment_merchant_connector_account_id(
                      attempt_data.connector_account_reference_id)
    IN IF mca_id = None THEN [called |-> FALSE, ok |-> TRUE, account |-> None]
       ELSE IF found THEN [called |-> TRUE, ok |-> TRUE, account |-> mca_id]
       ELSE [called |-> TRUE, ok |-> FALSE, account |-> None]

\* Every event is handled as a transaction event.
get_recovery_payment_attempt_always_seeking(is_transaction, payment_intent) ==
    [seek |-> TRUE, attempt |-> None, intent |-> None]

\* The match of get_recovery_payment_attempt: a transaction event seeks an
\* attempt; any other event gets (None, payment_intent.clone()).
get_recovery_payment_attempt(is_transaction, payment_intent) ==
    IF is_transaction
      THEN [seek |-> TRUE, attempt |-> None, intent |-> None]
      ELSE [seek |-> FALSE, attempt |-> None, intent |-> payment_intent]

\* get_recovery_payment_attempt up to its first await: the event decides
\* whether an attempt is sought at all; for a transaction event the attempt
\* data is extracted and the payment connector account resolved. Of the
\* delivery's event only its kind is read here; which event of that kind it
\* is, is read at classification.
FindPaymentMerchantConnectorAccount ==
    /\ flow.pc = "intent_resolved"
    /\ \E is_transaction \in {is_recovery_transaction_event(e) : e \in IncomingWebhookEvents} :
        LET started == [flow EXCEPT
                          !.invoice_details = None,
                          !.payment_response = None,
                          !.is_event_recovery_transaction_event = Some(is_transaction)]
            branch == get_recovery_payment_attempt(is_transaction, flow.payment_intent)
        IN
        IF ~branch.seek
          THEN flow' = [started EXCEPT !.pc = "attempt_resolved",
                                       !.recovery_attempt = branch.attempt,
                                       !.recovery_intent = branch.intent]
          ELSE \E txn \in get_recovery_invoice_transaction_details(
                              flow.billing_connector_payment_details) :
                 LET extracted ==
                       IF txn.called
                         THEN [started EXCEPT !.calls = Append(@, "extract_attempt_details")]
                         ELSE started
                 IN
                 IF txn.details = None
                   THEN flow' = [extracted EXCEPT !.pc = "done",
                                   !.result = Failed("TransactionWebhookProcessingFailed")]
                   ELSE \E found \in BOOLEAN :
                          LET r == find_payment_merchant_connector_account(
                                       Unwrap(txn.details), found)
                              looked == IF r.called
                                          THEN [extracted EXCEPT
                                                  !.invoice_transaction_details = txn.details,
                                                  !.calls = Append(@, "resolve_payment_account")]
                                          ELSE [extracted EXCEPT
                                                  !.invoice_transaction_details = txn.details]
                          IN flow' =
                               IF ~r.ok
                                 THEN [looked EXCEPT !.pc = "done",
                                         !.result = Failed("PaymentMerchantConnectorAccountNotFound")]
                                 ELSE [looked EXCEPT !.pc = "fetch_attempt",
                                         !.payment_merchant_connector_account = r.account]
    /\ UNCHANGED << store, deliveries, other >>

\* A RecoveryPaymentAttempt: feature_metadata is the trigger source it yields
\* (get_attempt_triggered_by).
RecoveryPaymentAttempt(id, st, fm) ==
    [attempt_id |-> id, attempt_status |-> st, feature_metadata |-> fm]

\* The store's attempts of an intent, oldest first.
AttemptsOf(payment_id) ==
    SelectSeq(attempts, LAMBDA a : a.payment_id = payment_id)

\* payments_core(PSync, PaymentGet) for an intent: the response with its
\* attempts list (expand_attempts: true), each attempt with the status it has
\* by now; another response shape; or a failure.
payments_core_psync(payment_id) ==
    LET list == AttemptsOf(payment_id) IN
    {Response("JsonWithHeaders",
              [k \in 1..Len(list) |->
                 [id |-> list[k].attempt_id,
                  connector_payment_id |-> list[k].connector_transaction_id,
                  status |-> sts[k],
                  feature_metadata |-> list[k].feature_metadata]]) :
        sts \in [1..Len(list) -> AttemptStatuses]}
    \cup {Response("OtherResponse", << >>), Response("OtherError", << >>)}

\* PaymentsResponse::find_attempt_in_attempts_list_using_connector_transaction_id:
\* the first attempt of the list whose connector payment id is that id.
find_attempt_in_attempts_list_using_connector_transaction_id(list, transaction_id) ==
    LET hits == SelectSeq(list,
                  LAMBDA a : a.connector_payment_id = Some(transaction_id))
    IN IF hits = << >> THEN None ELSE Some(Head(hits))

\* The matched attempt reported with the status the webhook carries.
get_payment_attempt_webhook_status(attempt_data, attempt_response, payment_intent) ==
    IF attempt_response.kind = "JsonWithHeaders"
      THEN LET final_attempt ==
                 IF attempt_data.connector_transaction_id = None THEN None
                 ELSE find_attempt_in_attempts_list_using_connector_transaction_id(
                          attempt_response.body,
                          Unwrap(attempt_data.connector_transaction_id))
           IN IF final_attempt = None
                THEN [ok |-> TRUE, attempt |-> None, intent |-> None]
                ELSE [ok |-> TRUE,
                      attempt |-> Some(RecoveryPaymentAttempt(
                                         Unwrap(final_attempt).id,
                                         attempt_data.status,
                                         Unwrap(final_attempt).feature_metadata)),
                      intent |-> payment_intent]
      ELSE [ok |-> FALSE, attempt |-> None, intent |-> None]

\* Without a connector transaction id the first attempt of the list is taken.
get_payment_attempt_first_without_id(attempt_data, attempt_response, payment_intent) ==
    IF attempt_response.kind = "JsonWithHeaders"
      THEN LET final_attempt ==
                 IF attempt_data.connector_transaction_id = None
                   THEN IF attempt_response.body = << >> THEN None
                        ELSE Some(Head(attempt_response.body))
                 ELSE find_attempt_in_attempts_list_using_connector_transaction_id(
                          attempt_response.body,
                          Unwrap(attempt_data.connector_transaction_id))
           IN IF final_attempt = None
                THEN [ok |-> TRUE, attempt |-> None, intent |-> None]
                ELSE [ok |-> TRUE,
                      attempt |-> Some(RecoveryPaymentAttempt(
                                         Unwrap(final_attempt).id,
                                         Unwrap(final_attempt).status,
                                         Unwrap(final_attempt).feature_metadata)),
                      intent |-> payment_intent]
      ELSE [ok |-> FALSE, attempt |-> None, intent |-> None]

\* The attempts list never searched: no attempt is ever matched.
get_payment_attempt_never_matching(attempt_data, attempt_response, payment_intent) ==
    IF attempt_response.kind = "JsonWithHeaders"
      THEN [ok |-> TRUE, attempt |-> None, intent |-> None]
      ELSE [ok |-> FALSE, attempt |-> None, intent |-> None]

\* The match of get_payment_attempt: the attempt with the extracted connector
\* transaction id paired with the unchanged intent, None, or the
\* attempt-fetch error.
get_payment_attempt(attempt_data, attempt_response, payment_intent) ==
    IF attempt_response.kind = "JsonWithHeaders"
      THEN LET final_attempt ==
                 IF attempt_data.connector_transaction_id = None THEN None
                 ELSE find_attempt_in_attempts_list_using_connector_transaction_id(
                          attempt_response.body,
                          Unwrap(attempt_data.connector_transaction_id))
           IN IF final_attempt = None
                THEN [ok |-> TRUE, attempt |-> None, intent |-> None]
                ELSE [ok |-> TRUE,
                      attempt |-> Some(RecoveryPaymentAttempt(
                                         Unwrap(final_attempt).id,
                                         Unwrap(final_attempt).status,
                                         Unwrap(final_attempt).feature_metadata)),
                      intent |-> payment_intent]
      ELSE [ok |-> FALSE, attempt |-> None, intent |-> None]

\* get_payment_attempt for the intent of this delivery.
GetPaymentAttempt ==
    /\ flow.pc = "fetch_attempt"
    /\ \E attempt_response \in
            payments_core_psync(Unwrap(flow.payment_intent).payment_id) :
        LET r == get_payment_attempt(Unwrap(flow.invoice_transaction_details),
                                     attempt_response, flow.payment_intent)
            fetched == [flow EXCEPT !.billing_connector_payment_details = None,
                                    !.calls = Append(@, "fetch_attempt")]
        IN flow' =
             IF ~r.ok
               THEN [fetched EXCEPT !.pc = "done",
                       !.result = Failed("PaymentAttemptFetchFailed")]
             ELSE IF IsSome(r.attempt)
               THEN [fetched EXCEPT !.pc = "attempt_resolved",
                                    !.payments_response = Some(attempt_response.body),
                                    !.recovery_attempt = r.attempt,
                                    !.recovery_intent = r.intent]
             ELSE [fetched EXCEPT !.pc = "record_attempt",
                                  !.payments_response = Some(attempt_response.body)]
    /\ UNCHANGED << store, deliveries, other >>

\* The record request built with trigger source Internal.
create_payment_record_request_internal(attempt_data, billing_merchant_connector_account_id, payment_merchant_connector_account) ==
    [status |-> attempt_data.status,
     connector |-> payment_merchant_connector_account,
     payment_merchant_connector_id |-> payment_merchant_connector_account,
     connector_transaction_id |-> attempt_data.connector_transaction_id,
     billing_connector_id |-> billing_merchant_connector_account_id,
     feature_metadata |-> Some("Internal")]

\* The record request built without the connector transaction id.
create_payment_record_request_without_transaction_id(attempt_data, billing_merchant_connector_account_id, payment_merchant_connector_account) ==
    [status |-> attempt_data.status,
     connector |-> payment_merchant_connector_account,
     payment_merchant_connector_id |-> payment_merchant_connector_account,
     connector_transaction_id |-> None,
     billing_connector_id |-> billing_merchant_connector_account_id,
     feature_metadata |-> Some("External")]

\* create_payment_record_request, reduced to the fields that tell attempts
\* apart: the trigger source is hardcoded to External.
create_payment_record_request(attempt_data, billing_merchant_connector_account_id, payment_merchant_connector_account) ==
    [status |-> attempt_data.status,
     connector |-> payment_merchant_connector_account,
     payment_merchant_connector_id |-> payment_merchant_connector_account,
     connector_transaction_id |-> attempt_data.connector_transaction_id,
     billing_connector_id |-> billing_merchant_connector_account_id,
     feature_metadata |-> Some("External")]

\* The attempt the payments core stores for a record request.
StoredAttempt(id, payment_id, request) ==
    [attempt_id |-> id,
     payment_id |-> payment_id,
     connector_transaction_id |-> request.connector_transaction_id,
     feature_metadata |-> request.feature_metadata]

\* record_attempt_core: the recorded attempt with the intent's refreshed
\* feature metadata, another response shape, or a failure.
record_attempt_core(request, payment_id) ==
    {Response("JsonWithHeaders",
              Some([id |-> Len(attempts) + 1,
                    status |-> request.status,
                    payment_attempt_feature_metadata |-> request.feature_metadata,
                    payment_intent_feature_metadata |-> RecordedMetadata])),
     Response("OtherResponse", None), Response("OtherError", None)}

\* The intent handed back as it was passed in, not refreshed from the
\* response.
record_payment_attempt_intent_kept(attempt_response, payment_intent) ==
    IF attempt_response.kind = "JsonWithHeaders"
      THEN LET body == Unwrap(attempt_response.body) IN
           [ok |-> TRUE,
            attempt |-> Some(RecoveryPaymentAttempt(
                               body.id, body.status,
                               body.payment_attempt_feature_metadata)),
            intent |-> payment_intent]
      ELSE [ok |-> FALSE, attempt |-> None, intent |-> None]

\* A failed record call passed over: the flow goes on without an attempt.
record_payment_attempt_failure_ignored(attempt_response, payment_intent) ==
    IF attempt_response.kind = "JsonWithHeaders"
      THEN LET body == Unwrap(attempt_response.body) IN
           [ok |-> TRUE,
            attempt |-> Some(RecoveryPaymentAttempt(
                               body.id, body.status,
                               body.payment_attempt_feature_metadata)),
            intent |-> Some(RecoveryPaymentIntent(
                              Unwrap(payment_intent).payment_id,
                              IntentStatusFrom(body.status),
                              body.payment_intent_feature_metadata))]
      ELSE [ok |-> TRUE, attempt |-> None, intent |-> payment_intent]

\* The match of record_payment_attempt: the new attempt and the intent with
\* its id kept and its status and metadata taken from the response.
record_payment_attempt(attempt_response, payment_intent) ==
    IF attempt_response.kind = "JsonWithHeaders"
      THEN LET body == Unwrap(attempt_response.body) IN
           [ok |-> TRUE,
            attempt |-> Some(RecoveryPaymentAttempt(
                               body.id, body.status,
                               body.payment_attempt_feature_metadata)),
            intent |-> Some(RecoveryPaymentIntent(
                              Unwrap(payment_intent).payment_id,
                              IntentStatusFrom(body.status),
                              body.payment_intent_feature_metadata))]
      ELSE [ok |-> FALSE, attempt |-> None, intent |-> None]

\* record_payment_attempt, reached only when get_payment_attempt returned
\* None (transpose().async_unwrap_or_else).
RecordPaymentAttempt ==
    /\ flow.pc = "record_attempt"
    /\ LET request == create_payment_record_request(
                          Unwrap(flow.invoice_transaction_details), BillingMcaId,
                          flow.payment_merchant_connector_account)
           payment_id == Unwrap(flow.payment_intent).payment_id
       IN \E attempt_response \in record_attempt_core(request, payment_id) :
            LET r == record_payment_attempt(attempt_response, flow.payment_intent) IN
            /\ attempts' =
                 IF attempt_response.kind = "OtherError"
                   THEN attempts
                   ELSE Append(attempts,
                               StoredAttempt(Len(attempts) + 1, payment_id, request))
            /\ flow' =
                 IF r.ok
                   THEN [flow EXCEPT !.pc = "attempt_resolved",
                                     !.payments_response = None,
                                     !.recovery_attempt = r.attempt,
                                     !.recovery_intent = r.intent,
                                     !.calls = Append(@, "record_attempt")]
                   ELSE [flow EXCEPT !.pc = "done",
                                     !.payments_response = None,
                                     !.result = Failed("PaymentAttemptFetchFailed"),
                                     !.calls = Append(@, "record_attempt")]
    /\ UNCHANGED << intents, process_tracker, tasks_added, deliveries, other >>

(* --------------------- classification and dispatch -------------------- *)

\* RecoveryPaymentAttempt::get_attempt_triggered_by.
get_attempt_triggered_by(attempt) == attempt.feature_metadata

\* The trigger source of the reconciled attempt dropped.
attempt_triggered_by_dropped(recovery_attempt) == None

\* The trigger source handed to the classifier: that of the reconciled
\* attempt, None without one.
attempt_triggered_by(recovery_attempt) ==
    IF recovery_attempt = None THEN None
    ELSE get_attempt_triggered_by(Unwrap(recovery_attempt))

\* RecoveryAction::get_action.
get_action(event_type, triggered_by) ==
    CASE event_type = "RecoveryPaymentFailure" ->
           IF triggered_by = Some("Internal") THEN "NoAction"
           ELSE "ScheduleFailedPayment"
      [] event_type = "RecoveryPaymentSuccess" ->
           IF triggered_by = Some("Internal") THEN "NoAction"
           ELSE "SuccessPaymentExternal"
      [] event_type = "RecoveryPaymentPending" -> "PendingPayment"
      [] event_type = "RecoveryInvoiceCancel" -> "CancelInvoice"
      [] OTHER -> "InvalidAction"

\* The gate of handle_schedule_failed_payment:
\* (intent_retry_count <= mca_retry_threshold).then(NoEffect), else
\* insert_execute_pcr_task.
handle_schedule_failed_payment(intent_retry_count, mca_retry_threshold) ==
    IF intent_retry_count <= mca_retry_threshold
      THEN "NoEffect" ELSE "insert_execute_pcr_task"

\* The match on the action at the end of recovery_incoming_webhook_flow.
match_action(action, intent_retry_count, mca_retry_threshold) ==
    CASE action = "CancelInvoice" -> "todo"
      [] action = "ScheduleFailedPayment" ->
           handle_schedule_failed_payment(intent_retry_count, mca_retry_threshold)
      [] OTHER -> "NoEffect"

\* A missing threshold or retry count taken as 0.
retry_limits_defaulted(get_retry_threshold, total_retry_count) ==
    [error |-> "",
     mca_retry_threshold |->
        IF get_retry_threshold = None THEN 0 ELSE Unwrap(get_retry_threshold),
     intent_retry_count |->
        IF total_retry_count = None THEN 0 ELSE Unwrap(total_retry_count)]

\* Only the threshold required: a missing retry count taken as 0.
retry_limits_count_optional(get_retry_threshold, total_retry_count) ==
    IF get_retry_threshold = None
      THEN [error |-> "BillingThresholdRetryCountFetchFailed",
            mca_retry_threshold |-> 0, intent_retry_count |-> 0]
      ELSE [error |-> "",
            mca_retry_threshold |-> Unwrap(get_retry_threshold),
            intent_retry_count |->
               IF total_retry_count = None THEN 0 ELSE Unwrap(total_retry_count)]

\* get_retry_threshold().ok_or(BillingThresholdRetryCountFetchFailed)?, then
\* get_retry_count().ok_or(RetryCountFetchFailed)?: the error that ends the
\* flow, or "" and the two u16 values.
retry_limits(get_retry_threshold, total_retry_count) ==
    IF get_retry_threshold = None
      THEN [error |-> "BillingThresholdRetryCountFetchFailed",
            mca_retry_threshold |-> 0, intent_retry_count |-> 0]
    ELSE IF total_retry_count = None
      THEN [error |-> "RetryCountFetchFailed",
            mca_retry_threshold |-> Unwrap(get_retry_threshold),
            intent_retry_count |-> 0]
    ELSE [error |-> "",
          mca_retry_threshold |-> Unwrap(get_retry_threshold),
          intent_retry_count |-> Unwrap(total_retry_count)]

\* From the reconciled attempt to the first await of the scheduling branch:
\* the action is computed; the merchant retry threshold and then the intent
\* retry count are resolved, each missing one ending the flow; the action is
\* matched. `total_retry_count` is what get_retry_count finds in the
\* reconciled intent's feature metadata.
Classify ==
    /\ flow.pc = "attempt_resolved"
    /\ \E event_type \in {e \in IncomingWebhookEvents :
                            Some(is_recovery_transaction_event(e))
                              = flow.is_event_recovery_transaction_event},
          get_retry_threshold \in OptionOf(RetryThresholds),
          total_retry_count \in OptionOf(RetryCounts) :
        LET action == get_action(event_type,
                                 attempt_triggered_by(flow.recovery_attempt))
            limits == retry_limits(get_retry_threshold, total_retry_count)
            classified == [flow EXCEPT !.billing_connector_payment_details = None,
                                       !.payment_intent = None,
                                       !.invoice_transaction_details = None,
                                       !.payment_merchant_connector_account = None,
                                       !.payments_response = None,
                                       !.event_type = Some(event_type),
                                       !.action = Some(action),
                                       !.mca_retry_threshold = get_retry_threshold]
            counted == [classified EXCEPT !.intent_retry_count = total_retry_count]
            arm == match_action(action, limits.intent_retry_count,
                                limits.mca_retry_threshold)
        IN flow' =
             CASE limits.error # "" ->
                    [classified EXCEPT !.pc = "done", !.result = Failed(limits.error)]
               [] limits.error = "" /\ arm = "todo" ->
                    [counted EXCEPT !.pc = "done", !.result = Panicked]
               [] limits.error = "" /\ arm = "NoEffect" ->
                    [counted EXCEPT !.pc = "done", !.result = NoEffect]
               [] OTHER -> [counted EXCEPT !.pc = "schedule"]
    /\ UNCHANGED << store, deliveries, other >>

(* ----------------------------- scheduling ----------------------------- *)

\* intent_retry_count + 1 on u16: past u16::MAX the addition panics in a
\* build with overflow checks and wraps in one without.
U16Max == 65535
u16_add(a, b) ==
    IF a + b <= U16Max THEN {Some(a + b)} ELSE {None, Some((a + b) % (U16Max + 1))}

\* Times get_schedule_time_to_retry_mit_payments may return.
ScheduleTimes == {"next_retry_time"}

\* GlobalPaymentId::get_string_repr.
get_string_repr(payment_id) == "pay_" \o ToString(payment_id)

\* The identifier built from the runner and the task name alone.
process_tracker_id_without_payment_id(runner, task, payment_id) ==
    runner \o "_" \o task

\* format!("{runner}_{task}_{}", payment_id.get_string_repr()).
process_tracker_id(runner, task, payment_id) ==
    runner \o "_" \o task \o "_" \o get_string_repr(payment_id)

\* The entry built with the number of the attempt to schedule as its retry
\* count.
ProcessTrackerNew_attempt_number(payment_id, intent_retry_count, payment_attempt_id, schedule_time) ==
    [id |-> process_tracker_id("PASSIVE_RECOVERY_WORKFLOW", "EXECUTE_WORKFLOW",
                               payment_id),
     name |-> "EXECUTE_WORKFLOW",
     runner |-> "PASSIVE_RECOVERY_WORKFLOW",
     tag |-> << "PCR" >>,
     tracking_data |-> [billing_mca_id |-> BillingMcaId,
                        global_payment_id |-> payment_id,
                        merchant_id |-> MerchantId,
                        profile_id |-> ProfileId,
                        payment_attempt_id |-> payment_attempt_id],
     retry_count |-> intent_retry_count + 1,
     schedule_time |-> schedule_time]

\* storage::ProcessTrackerNew::new with the PcrWorkflowTrackingData.
ProcessTrackerNew(payment_id, intent_retry_count, payment_attempt_id, schedule_time) ==
    [id |-> process_tracker_id("PASSIVE_RECOVERY_WORKFLOW", "EXECUTE_WORKFLOW",
                               payment_id),
     name |-> "EXECUTE_WORKFLOW",
     runner |-> "PASSIVE_RECOVERY_WORKFLOW",
     tag |-> << "PCR" >>,
     tracking_data |-> [billing_mca_id |-> BillingMcaId,
                        global_payment_id |-> payment_id,
                        merchant_id |-> MerchantId,
                        profile_id |-> ProfileId,
                        payment_attempt_id |-> payment_attempt_id],
     retry_count |-> intent_retry_count,
     schedule_time |-> schedule_time]

\* insert_execute_pcr_task without its attempt id check: a task without an
\* attempt is anchored to attempt 0.
insert_execute_pcr_task_unanchored(payment_intent, intent_retry_count, payment_attempt_id, schedule_time, entry_built) ==
    IF schedule_time = None
      THEN [ok |-> FALSE, error |-> "ScheduleTimeFetchFailed", entry |-> None]
    ELSE IF ~entry_built
      THEN [ok |-> FALSE, error |-> "ProcessTrackerCreationError", entry |-> None]
    ELSE [ok |-> TRUE, error |-> "",
          entry |-> Some(ProcessTrackerNew(
                           payment_intent.payment_id, intent_retry_count,
                           IF payment_attempt_id = None THEN 0
                           ELSE Unwrap(payment_attempt_id),
                           Unwrap(schedule_time)))]

\* insert_execute_pcr_task up to the insertion: the schedule time for attempt
\* number intent_retry_count + 1, then the attempt id, then the entry.
\* `entry` is the process tracker entry or the error that ended the call.
insert_execute_pcr_task(payment_intent, intent_retry_count, payment_attempt_id, schedule_time, entry_built) ==
    IF schedule_time = None
      THEN [ok |-> FALSE, error |-> "ScheduleTimeFetchFailed", entry |-> None]
    ELSE IF payment_attempt_id = None
      THEN [ok |-> FALSE, error |-> "PaymentAttemptIdNotFound", entry |-> None]
    ELSE IF ~entry_built
      THEN [ok |-> FALSE, error |-> "ProcessTrackerCreationError", entry |-> None]
    ELSE [ok |-> TRUE, error |-> "",
          entry |-> Some(ProcessTrackerNew(payment_intent.payment_id, intent_retry_count,
                                           Unwrap(payment_attempt_id),
                                           Unwrap(schedule_time)))]

\* The attempt id handle_schedule_failed_payment passes on:
\* recovery_attempt.as_ref().map(|attempt| attempt.attempt_id).
payment_attempt_id_of(recovery_attempt) ==
    IF recovery_attempt = None THEN None
    ELSE Some(Unwrap(recovery_attempt).attempt_id)

\* insert_execute_pcr_task up to db.insert_process: intent_retry_count + 1 is
\* computed, get_schedule_time_to_retry_mit_payments is awaited, and the
\* entry is built.
GetScheduleTime ==
    /\ flow.pc = "schedule"
    /\ \E attempt_number \in u16_add(Unwrap(flow.intent_retry_count), 1) :
        IF attempt_number = None
          THEN flow' = Return(Panicked)
          ELSE \E schedule_time \in OptionOf(ScheduleTimes),
                    entry_built \in BOOLEAN :
                 LET r == insert_execute_pcr_task(
                              Unwrap(flow.recovery_intent),
                              Unwrap(flow.intent_retry_count),
                              payment_attempt_id_of(flow.recovery_attempt),
                              schedule_time, entry_built)
                     asked == [flow EXCEPT !.schedule_attempt_number = attempt_number,
                                           !.schedule_time = schedule_time,
                                           !.calls = Append(@, "compute_next_schedule")]
                 IN flow' = IF r.ok
                              THEN [asked EXCEPT !.pc = "insert_task",
                                                 !.process_tracker_entry = r.entry]
                              ELSE [asked EXCEPT !.pc = "done",
                                                 !.result = Failed(r.error)]
    /\ UNCHANGED << store, deliveries, other >>

\* The tasks-added counter incremented before the insertion is known to have
\* succeeded.
insert_process_counted_first(inserted, process_tracker_entry, payment_intent) ==
    [rows |-> IF inserted THEN << process_tracker_entry >> ELSE << >>,
     added |-> 1,
     result |-> IF inserted
                  THEN Payment(payment_intent.payment_id, payment_intent.status)
                  ELSE Failed("ProcessTrackerResponseError")]

\* The insertion guarded by an existence check: an entry whose id the process
\* tracker already holds is not inserted again and counts as scheduled.
insert_process_if_absent(inserted, process_tracker_entry, payment_intent) ==
    IF \E i \in 1..Len(process_tracker) : process_tracker[i].id = process_tracker_entry.id
      THEN [rows |-> << >>,
            added |-> 0,
            result |-> Payment(payment_intent.payment_id, payment_intent.status)]
    ELSE IF inserted
      THEN [rows |-> << process_tracker_entry >>,
            added |-> 1,
            result |-> Payment(payment_intent.payment_id, payment_intent.status)]
      ELSE [rows |-> << >>,
            added |-> 0,
            result |-> Failed("ProcessTrackerResponseError")]

\* A failed insertion passed over: Payment is returned without a row.
insert_process_failure_ignored(inserted, process_tracker_entry, payment_intent) ==
    IF inserted
      THEN [rows |-> << process_tracker_entry >>,
            added |-> 1,
            result |-> Payment(payment_intent.payment_id, payment_intent.status)]
      ELSE [rows |-> << >>,
            added |-> 0,
            result |-> Payment(payment_intent.payment_id, payment_intent.status)]

\* The end of insert_execute_pcr_task: db.insert_process(entry) with `?`,
\* then TASKS_ADDED_COUNT.add(1), then Ok(Payment). `rows` is what the store
\* gains, `added` what the counter gains.
insert_process(inserted, process_tracker_entry, payment_intent) ==
    IF inserted
      THEN [rows |-> << process_tracker_entry >>,
            added |-> 1,
            result |-> Payment(payment_intent.payment_id, payment_intent.status)]
      ELSE [rows |-> << >>,
            added |-> 0,
            result |-> Failed("ProcessTrackerResponseError")]

\* db.insert_process, the tasks-added counter and the Payment result. The
\* flow checks nothing before inserting; whether the store takes a second row
\* with an id it already holds is the store's choice, so both outcomes occur.
InsertProcess ==
    /\ flow.pc = "insert_task"
    /\ \E inserted \in BOOLEAN :
        LET r == insert_process(inserted, Unwrap(flow.process_tracker_entry),
                                Unwrap(flow.recovery_intent))
        IN /\ process_tracker' = process_tracker \o r.rows
           /\ tasks_added' = tasks_added + r.added
           /\ flow' = ReturnAfter("insert_task", r.result)
    /\ UNCHANGED << intents, attempts, deliveries, other >>

(* ------------------- the system's own payment flow -------------------- *)

\* Between two deliveries the system's own payment flow may charge an intent
\* itself: an attempt it triggers carries a connector transaction id no
\* attempt of that intent has yet.
InternalPaymentAttempt ==
    /\ flow.pc = "idle"
    /\ Cardinality({i \in 1..Len(attempts) :
                      attempts[i].feature_metadata # Some("External")})
         < MaxInternalAttempts
    /\ \E payment_id \in 1..Len(intents), txn \in ConnectorTransactionIds :
        /\ \A i \in 1..Len(attempts) :
              ~(attempts[i].payment_id = payment_id
                /\ attempts[i].connector_transaction_id = Some(txn))
        /\ attempts' = Append(attempts,
              [attempt_id |-> Len(attempts) + 1,
               payment_id |-> payment_id,
               connector_transaction_id |-> Some(txn),
               feature_metadata |-> Some("Internal")])
    /\ UNCHANGED << flow, intents, process_tracker, tasks_added, deliveries, other >>

Next ==
    \/ Receive
    \/ Authenticate
    \/ Finish
    \/ GetBillingConnectorPaymentDetails
    \/ GetPaymentIntent
    \/ CreatePaymentIntent
    \/ FindPaymentMerchantConnectorAccount
    \/ GetPaymentAttempt
    \/ RecordPaymentAttempt
    \/ Classify
    \/ GetScheduleTime
    \/ InsertProcess
    \/ InternalPaymentAttempt

Spec == Init /\ [][Next]_vars

(* ------------------------ concurrent deliveries ----------------------- *)

\* The flow is an async fn on a multi-threaded runtime and takes no lock:
\* between two of its awaits another delivery's flow may run. The running
\* flow is parked and the parked one (or a fresh one) runs in its place.
Yield ==
    /\ flow.pc # "idle" \/ other.pc # "idle"
    /\ flow' = other
    /\ other' = flow
    /\ UNCHANGED << store, deliveries >>

\* Two deliveries have arrived over an empty store and both have passed the
\* source check; one runs, the other waits for its turn.
InitRace ==
    /\ flow = [IdleFlow EXCEPT !.pc = "authenticated", !.source_verified = TRUE]
    /\ other = [IdleFlow EXCEPT !.pc = "authenticated", !.source_verified = TRUE]
    /\ intents = << >>
    /\ attempts = << >>
    /\ process_tracker = << >>
    /\ tasks_added = 0
    /\ deliveries = 2

NextRace ==
    \/ GetBillingConnectorPaymentDetails
    \/ GetPaymentIntent
    \/ CreatePaymentIntent
    \/ FindPaymentMerchantConnectorAccount
    \/ GetPaymentAttempt
    \/ RecordPaymentAttempt
    \/ Yield

SpecRace == InitRace /\ [][NextRace]_vars

(* ---------------------------- redelivery ------------------------------ *)

\* The flow has returned and the billing provider may deliver again: its
\* result and the operations it invoked are remembered, for the next delivery
\* to be compared with it; its locals are gone.
Retire ==
    /\ flow.pc = "done"
    /\ other' = [IdleFlow EXCEPT !.pc = "done",
                                 !.result = flow.result,
                                 !.calls = flow.calls]
    /\ flow' = IdleFlow
    /\ UNCHANGED << store, deliveries >>

NextRedelivery ==
    \/ Receive
    \/ Authenticate
    \/ Retire
    \/ GetBillingConnectorPaymentDetails
    \/ GetPaymentIntent
    \/ CreatePaymentIntent
    \/ FindPaymentMerchantConnectorAccount
    \/ GetPaymentAttempt
    \/ RecordPaymentAttempt
    \/ Classify
    \/ GetScheduleTime
    \/ InsertProcess

SpecRedelivery == Init /\ [][NextRedelivery]_vars

(* ------------- insert_execute_pcr_task on arbitrary inputs ------------ *)

\* insert_execute_pcr_task takes an optional attempt id. This specification
\* starts at its call with every combination of intent, retry count and
\* optional attempt, whatever the caller may pass.
InitSched ==
    /\ flow \in {[IdleFlow EXCEPT
                    !.pc = "schedule",
                    !.recovery_attempt = attempt,
                    !.recovery_intent = Some(RecoveryPaymentIntent(payment_id, st,
                                                                   FetchedMetadata)),
                    !.intent_retry_count = Some(retry)] :
                 attempt \in OptionOf({RecoveryPaymentAttempt(id, ast, Some("External")) :
                                         id \in 1..MaxDeliveries, ast \in AttemptStatuses}),
                 payment_id \in 1..MaxDeliveries, st \in IntentStatuses,
                 retry \in RetryCounts}
    /\ intents = << >>
    /\ attempts = << >>
    /\ process_tracker = << >>
    /\ tasks_added = 0
    /\ deliveries = 0
    /\ other = IdleFlow

NextSched ==
    \/ GetScheduleTime
    \/ InsertProcess

SpecSched == InitSched /\ [][NextSched]_vars

(* ------------- two deliveries scheduling for one intent --------------- *)

\* A flow at the call of insert_execute_pcr_task: it has passed the gate of
\* handle_schedule_failed_payment with this intent, retry count and attempt.
AtSchedule(payment_id, st, retry, attempt) ==
    [IdleFlow EXCEPT
       !.pc = "schedule",
       !.source_verified = TRUE,
       !.recovery_attempt = attempt,
       !.recovery_intent = Some(RecoveryPaymentIntent(payment_id, st, FetchedMetadata)),
       !.intent_retry_count = Some(retry)]

\* The attempts a flow may have reconciled for an intent.
ReconciledAttempts ==
    OptionOf({RecoveryPaymentAttempt(id, ast, Some("External")) :
                id \in 1..MaxDeliveries, ast \in AttemptStatuses})

\* Two concurrent deliveries for one intent have both passed the gate, each
\* with the status, retry count and attempt it reconciled.
InitSchedRace ==
    /\ \E payment_id \in 1..MaxDeliveries :
          /\ flow \in {AtSchedule(payment_id, st, retry, attempt) :
                         st \in IntentStatuses, retry \in RetryCounts,
                         attempt \in ReconciledAttempts}
          /\ other \in {AtSchedule(payment_id, st, retry, attempt) :
                          st \in IntentStatuses, retry \in RetryCounts,
                          attempt \in ReconciledAttempts}
    /\ intents = << >>
    /\ attempts = << >>
    /\ process_tracker = << >>
    /\ tasks_added = 0
    /\ deliveries = 2

NextSchedRace ==
    \/ GetScheduleTime
    \/ InsertProcess
    \/ Yield

SpecSchedRace == InitSchedRace /\ [][NextSchedRace]_vars

(* =============================== claims =============================== *)

\* The delivery in progress has invoked collaborator operation `op`.
Invoked(op) == \E k \in 1..Len(flow.calls) : flow.calls[k] = op

\* The retry count and the threshold of the delivery in progress, once the
\* flow has resolved both.
BothResolved == IsSome(flow.intent_retry_count) /\ IsSome(flow.mca_retry_threshold)
r_now == Unwrap(flow.intent_retry_count)
T_now == Unwrap(flow.mca_retry_threshold)

\* C1, as the specification states it: with the action ScheduleFailedPayment,
\* retry count r and threshold T, a delivery with r <= T goes on to schedule
\* (it never ends in NoEffect), and a delivery with r > T ends in NoEffect
\* without computing a schedule time or inserting a task. The code decides
\* the other way round, so this does not hold.
C1_GateAsSpecified ==
    (flow.action = Some("ScheduleFailedPayment") /\ BothResolved) =>
        IF r_now <= T_now
          THEN flow.result.kind # "NoEffect"
          ELSE /\ flow.pc = "done"
               /\ flow.result = NoEffect
               /\ ~Invoked("compute_next_schedule")
               /\ ~Invoked("insert_task")

\* C2, as the specification states it: a scheduling call without an attempt
\* that has ended, has ended in PaymentAttemptIdNotFound. It has not when the
\* schedule-time provider returned nothing.
C2_MissingAttemptIdAlways ==
    (flow.recovery_attempt = None /\ flow.pc = "done"
       /\ IsSome(flow.schedule_attempt_number)) =>
        flow.result = Failed("PaymentAttemptIdNotFound")

\* C2, amended: a scheduling call without an attempt never reaches
\* db.insert_process; once the attempt number is computed it ends in
\* ScheduleTimeFetchFailed when the provider returned no time and in
\* PaymentAttemptIdNotFound when it returned one; and every row of the process
\* tracker carries the id of the attempt the call was given.
C2_NoTaskWithoutAttemptId ==
    /\ flow.recovery_attempt = None =>
         /\ flow.pc \in {"schedule", "done"}
         /\ ~Invoked("insert_task")
         /\ process_tracker = << >>
         /\ (flow.pc = "done" /\ IsSome(flow.schedule_attempt_number)) =>
               flow.result = IF flow.schedule_time = None
                               THEN Failed("ScheduleTimeFetchFailed")
                               ELSE Failed("PaymentAttemptIdNotFound")
    /\ \A k \in 1..Len(process_tracker) :
         /\ IsSome(flow.recovery_attempt)
         /\ process_tracker[k].tracking_data.payment_attempt_id
              = Unwrap(flow.recovery_attempt).attempt_id

\* C2 witness: a call without an attempt got a schedule time and ended in
\* PaymentAttemptIdNotFound.
C2_Witness ==
    /\ flow.recovery_attempt = None
    /\ flow.pc = "done"
    /\ IsSome(flow.schedule_time)
    /\ Invoked("compute_next_schedule")
    /\ flow.result = Failed("PaymentAttemptIdNotFound")

\* C3: a delivery whose source is not verified ends right away in
\* WebhookAuthenticationFailed, having invoked no collaborator operation.
C3_UnverifiedSourceAborts ==
    (flow.pc # "idle" /\ ~flow.source_verified) =>
        /\ flow.pc \in {"received", "done"}
        /\ flow.calls = << >>
        /\ flow.pc = "done" => flow.result = Failed("WebhookAuthenticationFailed")

\* C3 witness: an unverified delivery has ended in the authentication error.
C3_Witness ==
    /\ flow.pc = "done"
    /\ ~flow.source_verified
    /\ flow.result = Failed("WebhookAuthenticationFailed")

\* Store attempts of intent `payment_id` with connector transaction id `txn`.
AttemptsWith(payment_id, txn) ==
    {i \in 1..Len(attempts) :
       attempts[i].payment_id = payment_id /\ attempts[i].connector_transaction_id = txn}

\* C4: intents are looked up, then created. No two intents of the store have
\* the same merchant reference; create-intent is invoked only after a lookup,
\* for a reference the store holds no intent of; and a lookup that finds the
\* intent hands back the one intent of that reference, whose id a later
\* delivery gets again because intents are never removed or renumbered.
C4_LookupThenCreate ==
    /\ \A i, j \in 1..Len(intents) :
          intents[i].merchant_reference_id = intents[j].merchant_reference_id => i = j
    /\ \A i \in 1..Len(intents) : intents[i].payment_id = i
    /\ flow.pc = "create_intent" =>
          /\ flow.calls[Len(flow.calls)] = "fetch_intent"
          /\ IntentsWithReference(Unwrap(flow.invoice_details).merchant_reference_id) = {}
    /\ Invoked("create_intent") =>
          /\ Len(flow.calls) >= 2
          /\ \E k \in 2..Len(flow.calls) :
                flow.calls[k] = "create_intent" /\ flow.calls[k - 1] = "fetch_intent"
    /\ flow.pc = "intent_resolved" =>
          IntentsWithReference(Unwrap(flow.invoice_details).merchant_reference_id)
            = {Unwrap(flow.payment_intent).payment_id}

\* C4 witness: a second delivery of a reference whose intent the first
\* delivery created gets that intent back and creates nothing.
C4_Witness ==
    /\ deliveries = 2
    /\ flow.pc = "intent_resolved"
    /\ ~Invoked("create_intent")
    /\ Len(intents) = 1
    /\ Unwrap(flow.payment_intent).payment_id = 1
    /\ intents[1].merchant_reference_id
         = Unwrap(flow.invoice_details).merchant_reference_id

\* The attempt a transaction delivery extracted, and the attempts list entries
\* with its connector transaction id.
ExtractedTransactionId == Unwrap(flow.invoice_transaction_details).connector_transaction_id
ListedMatches ==
    LET list == Unwrap(flow.payments_response)
    IN {k \in 1..Len(list) : /\ IsSome(ExtractedTransactionId)
                             /\ list[k].connector_payment_id = ExtractedTransactionId}

\* C5: when the intent of a transaction delivery has an attempt with the
\* extracted connector transaction id, record-attempt is not reached, and the
\* reconciled attempt is that attempt: the id and trigger metadata the store
\* holds for it and the status the attempts list reports for it, paired with
\* the intent as it was looked up.
C5_ExistingAttemptReturned ==
    /\ flow.pc = "record_attempt" =>
          /\ ListedMatches = {}
          /\ \/ ExtractedTransactionId = None
             \/ AttemptsWith(Unwrap(flow.payment_intent).payment_id,
                             ExtractedTransactionId) = {}
    /\ (flow.pc = "attempt_resolved" /\ IsSome(flow.payments_response)) =>
          /\ ~Invoked("record_attempt")
          /\ \E k \in ListedMatches :
                LET listed == Unwrap(flow.payments_response)[k]
                    found == Unwrap(flow.recovery_attempt)
                IN /\ found.attempt_id = listed.id
                   /\ found.attempt_status = listed.status
                   /\ found.feature_metadata = listed.feature_metadata
                   /\ AttemptsWith(Unwrap(flow.payment_intent).payment_id,
                                   ExtractedTransactionId) = {found.attempt_id}
                   /\ attempts[found.attempt_id].feature_metadata = found.feature_metadata
          /\ flow.recovery_intent = flow.payment_intent

\* C5 witness: a delivery matched an attempt whose status the webhook reports
\* differently from the attempts list.
C5_Witness ==
    /\ flow.pc = "attempt_resolved"
    /\ IsSome(flow.payments_response)
    /\ IsSome(flow.recovery_attempt)
    /\ Unwrap(flow.recovery_attempt).attempt_status
         # Unwrap(flow.invoice_transaction_details).status
    /\ ~Invoked("record_attempt")

\* C6: with deliveries handled one after another, the store never holds two
\* attempts of one intent with the same connector transaction id, and when a
\* transaction delivery with a connector transaction id has reconciled its
\* attempt, the store holds exactly one attempt for that intent and id.
C6_OneAttemptPerTransaction ==
    /\ \A i, j \in 1..Len(attempts) :
          (/\ attempts[i].payment_id = attempts[j].payment_id
           /\ attempts[i].connector_transaction_id = attempts[j].connector_transaction_id
           /\ IsSome(attempts[i].connector_transaction_id)) => i = j
    /\ \A i \in 1..Len(attempts) : attempts[i].attempt_id = i
    /\ (/\ flow.pc = "attempt_resolved"
        /\ flow.is_event_recovery_transaction_event = Some(TRUE)
        /\ IsSome(ExtractedTransactionId)) =>
          Cardinality(AttemptsWith(Unwrap(flow.recovery_intent).payment_id,
                                   ExtractedTransactionId)) = 1

\* C6 witness: the second of two deliveries for one intent and connector
\* transaction id has matched the attempt the first one recorded.
C6_Witness ==
    /\ deliveries = 2
    /\ flow.pc = "attempt_resolved"
    /\ IsSome(flow.payments_response)
    /\ ~Invoked("record_attempt")
    /\ Len(attempts) = 1
    /\ attempts[1].feature_metadata = Some("External")
    /\ ExtractedTransactionId = attempts[1].connector_transaction_id

\* C7: a flow that got a sync response never has the connector parse the raw
\* webhook body, neither for the invoice nor for the attempt; the invoice data
\* and the attempt data it works with are the sync response's.
C7_SyncPrecedence ==
    /\ Invoked("billing_sync") =>
          /\ ~Invoked("extract_invoice_details")
          /\ ~Invoked("extract_attempt_details")
    /\ IsSome(flow.billing_connector_payment_details) =>
          /\ Invoked("billing_sync")
          /\ IsSome(flow.invoice_details) =>
                flow.invoice_details
                  = Some(InvoiceDataFrom(Unwrap(flow.billing_connector_payment_details)))
          /\ IsSome(flow.invoice_transaction_details) =>
                flow.invoice_transaction_details
                  = Some(AttemptDataFrom(Unwrap(flow.billing_connector_payment_details)))

\* C7 witness: a flow with a sync response has its attempt data and is about
\* to look the attempt up.
C7_Witness ==
    /\ flow.pc = "fetch_attempt"
    /\ IsSome(flow.billing_connector_payment_details)
    /\ IsSome(flow.invoice_transaction_details)
    /\ flow.calls = << "billing_sync", "fetch_intent" >>

\* C8, as the specification states it: a flow whose action is not
\* ScheduleFailedPayment, with threshold and retry count resolved, ends in
\* NoEffect without inserting a task. For CancelInvoice the code reaches
\* todo!() instead.
C8_NonSchedulingIsNoEffect ==
    (/\ IsSome(flow.action)
     /\ flow.action # Some("ScheduleFailedPayment")
     /\ BothResolved) =>
        /\ flow.pc = "done"
        /\ flow.result = NoEffect
        /\ ~Invoked("insert_task")

\* The trigger source the reconciled attempt of the flow carries.
TriggerNow ==
    IF flow.recovery_attempt = None THEN None
    ELSE Unwrap(flow.recovery_attempt).feature_metadata

EveryPairClassified ==
    \A e \in IncomingWebhookEvents, t \in OptionOf({"Internal", "External"}) :
        get_action(e, t) \in RecoveryActions

C10_NonTransactionEvent ==
    flow.is_event_recovery_transaction_event = Some(FALSE) =>
        /\ ~Invoked("extract_attempt_details")
        /\ ~Invoked("resolve_payment_account")
        /\ ~Invoked("fetch_attempt")
        /\ ~Invoked("record_attempt")
        /\ flow.recovery_attempt = None
        /\ IsSome(flow.recovery_intent)
        /\ flow.pc = "attempt_resolved" => flow.recovery_intent = flow.payment_intent
        /\ attempt_triggered_by(flow.recovery_attempt) = None
        /\ IsSome(flow.event_type) =>
              ~is_recovery_transaction_event(Unwrap(flow.event_type))

\* C10 witness: an invoice event has been classified without an attempt.
C10_Witness ==
    /\ flow.is_event_recovery_transaction_event = Some(FALSE)
    /\ flow.pc = "done"
    /\ flow.action = Some("InvalidAction")
    /\ flow.result = NoEffect
    /\ flow.recovery_attempt = None

\* C11: the scheduling branch is entered only with the action
\* ScheduleFailedPayment and with both the merchant retry threshold and the
\* intent retry count resolved. A flow without a threshold ends in
\* BillingThresholdRetryCountFetchFailed, one with a threshold but without a
\* retry count in RetryCountFetchFailed; neither computes a schedule time or
\* inserts a task.
C11_SchedulingNeedsBothLimits ==
    /\ (\/ flow.pc \in {"schedule", "insert_task"}
        \/ Invoked("compute_next_schedule")
        \/ Invoked("insert_task")) =>
          /\ BothResolved
          /\ flow.action = Some("ScheduleFailedPayment")
    /\ (IsSome(flow.action) /\ ~BothResolved) =>
          /\ flow.pc = "done"
          /\ flow.result =
               IF flow.mca_retry_threshold = None
                 THEN Failed("BillingThresholdRetryCountFetchFailed")
                 ELSE Failed("RetryCountFetchFailed")
          /\ ~Invoked("compute_next_schedule")
          /\ ~Invoked("insert_task")

\* C11 witness: a delivery classified ScheduleFailedPayment whose intent has
\* no retry count has ended in RetryCountFetchFailed.
C11_Witness ==
    /\ flow.action = Some("ScheduleFailedPayment")
    /\ IsSome(flow.mca_retry_threshold)
    /\ flow.intent_retry_count = None
    /\ flow.result = Failed("RetryCountFetchFailed")

\* C12: of the answers to the intent lookup only PaymentNotFound counts as
\* absence and leads to the creation of an intent. Any other failure, and a
\* success of an unexpected shape, ends the flow in PaymentIntentFetchFailed
\* with the lookup as its last collaborator operation, so create-intent is
\* not invoked.
C12_OnlyNotFoundIsAbsence ==
    /\ flow.pc = "create_intent" =>
          /\ IsSome(flow.payment_response)
          /\ Unwrap(flow.payment_response).kind = "PaymentNotFound"
    /\ IsSome(flow.payment_response) =>
          LET kind == Unwrap(flow.payment_response).kind IN
          /\ kind = "PaymentNotFound" => flow.pc = "create_intent"
          /\ kind = "JsonWithHeaders" => flow.pc = "intent_resolved"
          /\ kind \in {"OtherResponse", "OtherError"} =>
                /\ flow.pc = "done"
                /\ flow.result = Failed("PaymentIntentFetchFailed")
                /\ ~Invoked("create_intent")
                /\ flow.calls[Len(flow.calls)] = "fetch_intent"

\* C12 witness: a lookup answered by a success of an unexpected shape has
\* ended the flow in PaymentIntentFetchFailed.
C12_Witness ==
    /\ IsSome(flow.payment_response)
    /\ Unwrap(flow.payment_response).kind = "OtherResponse"
    /\ flow.result = Failed("PaymentIntentFetchFailed")

\* How often the flow has invoked a collaborator operation.
Invocations(op) == Cardinality({i \in 1..Len(flow.calls) : flow.calls[i] = op})

\* The state right after the sync step of a connector that requires (or does
\* not require) the payment sync.
SyncDecided(required) ==
    flow.should_billing_connector_payment_api_called = Some(required)

\* C13 as stated: a connector that requires the payment sync gets exactly one
\* outbound call.
C13_ExactlyOneCallWhenConfigured ==
    SyncDecided(TRUE) => Invocations("billing_sync") = 1

\* C13 as the code has it: the outbound sync call is made only for a
\* connector that requires the payment sync, and at most once. Without the
\* requirement there is no call and the sync response is none. With it there
\* is exactly one call unless the connector transaction id cannot be derived
\* or the request cannot be built, in which case there is none. Every sync
\* failure ends the flow in BillingConnectorPaymentsSyncFailed before any
\* intent is fetched or created, and the sync step leaves the store as it is.
C13_SyncOnlyWhenConfigured ==
    /\ [](/\ Invocations("billing_sync") <= 1
          /\ SyncDecided(FALSE) =>
                /\ flow.pc = "sync_fetched"
                /\ ~Invoked("billing_sync")
                /\ flow.billing_connector_payment_details = None
          /\ SyncDecided(TRUE) =>
                \/ /\ flow.pc = "sync_fetched"
                   /\ flow.calls = << "billing_sync" >>
                   /\ IsSome(flow.billing_connector_payment_details)
                \/ /\ flow.pc = "done"
                   /\ flow.result = Failed("BillingConnectorPaymentsSyncFailed")
                   /\ flow.calls \in {<< >>, << "billing_sync" >>}
          /\ flow.result = Failed("BillingConnectorPaymentsSyncFailed") =>
                /\ SyncDecided(TRUE)
                /\ ~Invoked("fetch_intent")
                /\ ~Invoked("create_intent"))
    /\ [][flow.pc = "authenticated" => UNCHANGED store]_vars

\* C13 witness: a connector that requires the payment sync has been called
\* once and its response is held for the extraction steps.
C13_Witness ==
    /\ SyncDecided(TRUE)
    /\ flow.calls = << "billing_sync" >>
    /\ IsSome(flow.billing_connector_payment_details)

\* Every record-attempt request create_payment_record_request builds has
\* trigger source External, for all attempt data and with or without a payment
\* connector account.
EveryRecordRequestExternal ==
    \A attempt_data \in AttemptDatas, account \in OptionOf({"mca_pay"}) :
        create_payment_record_request(attempt_data, BillingMcaId, account)
            .feature_metadata = Some("External")

\* C14: every record-attempt request create_payment_record_request builds
\* has trigger source External, for all attempt data and with or without a
\* payment connector account; so has the request a flow is about to send, the
\* attempt a flow has recorded and the row the store holds for it.
C14_RecordedAttemptsExternal ==
    /\ EveryRecordRequestExternal
    /\ flow.pc = "record_attempt" =>
          create_payment_record_request(
              Unwrap(flow.invoice_transaction_details), BillingMcaId,
              flow.payment_merchant_connector_account).feature_metadata
            = Some("External")
    /\ (Invoked("record_attempt") /\ IsSome(flow.recovery_attempt)) =>
          LET recorded == Unwrap(flow.recovery_attempt) IN
          /\ recorded.feature_metadata = Some("External")
          /\ attempts[recorded.attempt_id].feature_metadata = Some("External")

\* C14 witness: a flow that resolved no payment connector account has
\* recorded an attempt.
C14_Witness ==
    /\ flow.pc = "attempt_resolved"
    /\ Invoked("record_attempt")
    /\ IsSome(flow.recovery_attempt)
    /\ flow.payment_merchant_connector_account = None

\* C15: when the flow has inserted a retry task, the task's retry count is
\* the intent's retry counter the flow read, its tracking data carries the
\* billing connector account id, the intent id, the merchant id, the profile
\* id and the reconciled attempt's id, and the result is Payment with the id
\* and status of the intent attempt reconciliation returned; after a newly
\* recorded attempt that status is the one refreshed from the attempt.
C15_InsertedTaskMirrorsFlow ==
    flow.result.kind = "Payment" =>
        /\ Len(process_tracker) > 0
        /\ LET task == process_tracker[Len(process_tracker)]
               intent == Unwrap(flow.recovery_intent)
               attempt == Unwrap(flow.recovery_attempt)
           IN /\ task.retry_count = Unwrap(flow.intent_retry_count)
              /\ task.tracking_data =
                   [billing_mca_id |-> BillingMcaId,
                    global_payment_id |-> intent.payment_id,
                    merchant_id |-> MerchantId,
                    profile_id |-> ProfileId,
                    payment_attempt_id |-> attempt.attempt_id]
              /\ flow.result = Payment(intent.payment_id, intent.status)
              /\ Invoked("record_attempt") =>
                    intent.status = IntentStatusFrom(attempt.attempt_status)

\* C15 witness: a flow that recorded a new attempt has inserted a retry task.
C15_Witness ==
    /\ flow.result.kind = "Payment"
    /\ Invoked("record_attempt")
    /\ Invoked("insert_task")

\* The collaborator operations in the order the flow reaches them.
FlowOrder ==
    << "billing_sync", "extract_invoice_details", "fetch_intent", "create_intent",
       "extract_attempt_details", "resolve_payment_account", "fetch_attempt",
       "record_attempt", "compute_next_schedule", "insert_task" >>
PositionOf(op) == CHOOSE k \in 1..Len(FlowOrder) : FlowOrder[k] = op

\* The last collaborator operation the flow invoked, "" before the first.
LastCall == IF flow.calls = << >> THEN "" ELSE flow.calls[Len(flow.calls)]

\* For each error the operations one of which is the last the flow invoked
\* when it ends in that error: the operation that failed, or the one before
\* a failure that arises inside the flow.
LastCallAt(error) ==
    CASE error = "WebhookAuthenticationFailed" -> {""}
      [] error = "InvoiceWebhookProcessingFailed" -> {"", "extract_invoice_details"}
      [] error = "BillingConnectorPaymentsSyncFailed" -> {"", "billing_sync"}
      [] error = "PaymentIntentFetchFailed" -> {"fetch_intent"}
      [] error = "PaymentIntentCreateFailed" -> {"create_intent"}
      [] error = "TransactionWebhookProcessingFailed" -> {"extract_attempt_details"}
      [] error = "PaymentMerchantConnectorAccountNotFound" -> {"resolve_payment_account"}
      [] error = "PaymentAttemptFetchFailed" -> {"fetch_attempt", "record_attempt"}
      [] error \in {"BillingThresholdRetryCountFetchFailed", "RetryCountFetchFailed"} ->
           {"fetch_intent", "create_intent", "fetch_attempt", "record_attempt"}
      [] error \in {"ScheduleTimeFetchFailed", "PaymentAttemptIdNotFound",
                    "ProcessTrackerCreationError"} -> {"compute_next_schedule"}
      [] error = "ProcessTrackerResponseError" -> {"insert_task"}
      [] OTHER -> {}

\* C16: the flow reaches its collaborator operations in one order, and a flow
\* with an error result has ended, its last operation being the one that
\* failed (or the one before a failure inside the flow), so that no later
\* operation was invoked. A failed step is never passed over: a record call
\* that yielded no attempt and a schedule computation that yielded no time
\* have ended the flow with their errors.
C16_FailFast ==
    /\ \A i \in 1..(Len(flow.calls) - 1) :
          PositionOf(flow.calls[i]) < PositionOf(flow.calls[i + 1])
    /\ flow.result.kind = "Err" =>
          /\ flow.pc = "done"
          /\ LastCall \in LastCallAt(flow.result.error)
    /\ (LastCall = "record_attempt" /\ flow.recovery_attempt = None) =>
          flow.result = Failed("PaymentAttemptFetchFailed")
    /\ (Invoked("compute_next_schedule") /\ flow.schedule_time = None) =>
          /\ flow.result = Failed("ScheduleTimeFetchFailed")
          /\ ~Invoked("insert_task")

\* C16 witness: a failed record call has ended the flow.
C16_Witness ==
    /\ LastCall = "record_attempt"
    /\ flow.recovery_attempt = None
    /\ flow.result.kind = "Err"
    /\ flow.pc = "done"

\* C17: a failed lookup of the payment connector account is not fatal: the
\* flow takes the account as absent and goes on to the attempt lookup, and no
\* flow ends in PaymentMerchantConnectorAccountNotFound.
C17_ResolutionFailureNonFatal ==
    /\ flow.result # Failed("PaymentMerchantConnectorAccountNotFound")
    /\ (/\ LastCall = "resolve_payment_account"
        /\ flow.payment_merchant_connector_account = None) =>
          flow.pc = "fetch_attempt"

\* The attempt data the flow holds names an account reference the billing
\* connector account maps to no payment connector account.
UnmappedReferenceHeld ==
    /\ IsSome(flow.invoice_transaction_details)
    /\ get_payment_merchant_connector_account_id(
           Unwrap(flow.invoice_transaction_details).connector_account_reference_id)
         = None

\* C18: for attempt data whose account reference has no mapping the store is
\* not asked for a payment connector account, the resolved account is none
\* and the flow goes on to the attempt lookup without an account-resolution
\* error; the record request it then builds has neither a connector nor a
\* payment connector id.
C18_UnmappedReferenceSkipsLookup ==
    UnmappedReferenceHeld =>
        /\ ~Invoked("resolve_payment_account")
        /\ flow.payment_merchant_connector_account = None
        /\ flow.result # Failed("PaymentMerchantConnectorAccountNotFound")
        /\ flow.pc = "fetch_attempt" \/ Invoked("fetch_attempt")
        /\ flow.pc = "record_attempt" =>
              LET request == create_payment_record_request(
                                 Unwrap(flow.invoice_transaction_details), BillingMcaId,
                                 flow.payment_merchant_connector_account)
              IN /\ request.connector = None
                 /\ request.payment_merchant_connector_id = None

\* C18 witness: a flow holding attempt data with an unmapped account
\* reference is about to record an attempt.
C18_Witness ==
    /\ UnmappedReferenceHeld
    /\ flow.pc = "record_attempt"
    /\ flow.payment_merchant_connector_account = None

\* C19: the error kind tells a failed record call from a failed fetch call:
\* PaymentAttemptFetchFailed is the result only of a flow whose attempt fetch
\* failed, and a flow whose record call failed ends in another error kind.
C19_RecordErrorDistinctFromFetchError ==
    /\ flow.result = Failed("PaymentAttemptFetchFailed") =>
          LastCall = "fetch_attempt"
    /\ (flow.result.kind = "Err" /\ LastCall = "record_attempt") =>
          flow.result.error # "PaymentAttemptFetchFailed"

\* C20: a flow ends in ProcessTrackerResponseError exactly when its task
\* insertion failed, so no earlier step produces that error; a failed
\* insertion adds nothing to the tasks-added counter, which always equals the
\* number of tasks inserted.
C20_CounterCountsInsertions ==
    /\ tasks_added = Len(process_tracker)
    /\ flow.result = Failed("ProcessTrackerResponseError") <=>
          (flow.result.kind = "Err" /\ LastCall = "insert_task")
    /\ (flow.result.kind = "Payment") <=>
          (flow.result.kind # "Err" /\ LastCall = "insert_task")

\* C20 witness: after one task was inserted, the insertion of a later flow
\* has failed.
C20_Witness ==
    /\ flow.result = Failed("ProcessTrackerResponseError")
    /\ tasks_added = 1
    /\ Len(process_tracker) = 1

\* Whether delivery `f` (the running or the parked one) has invoked a
\* collaborator operation.
InvokedBy(f, op) == \E k \in 1..Len(f.calls) : f.calls[k] = op

\* Delivery `f` created the intent it holds; delivery `f` recorded the attempt
\* it holds.
CreatedIntent(f) == InvokedBy(f, "create_intent") /\ IsSome(f.payment_intent)
RecordedAttempt(f) == InvokedBy(f, "record_attempt") /\ IsSome(f.recovery_attempt)

\* C21: nothing keeps two concurrent deliveries from both acting on a
\* not-found answer. When both have created an intent, two intents were
\* created, also for one merchant reference; when both have recorded an
\* attempt, two attempts were recorded, also for one connector transaction id
\* of one intent. The store holds two intents under one reference only when
\* both deliveries invoked create-intent.
C21_BothCreateAfterNotFound ==
    /\ (CreatedIntent(flow) /\ CreatedIntent(other)) =>
          /\ Unwrap(flow.payment_intent).payment_id
               # Unwrap(other.payment_intent).payment_id
          /\ Len(intents) = 2
    /\ (RecordedAttempt(flow) /\ RecordedAttempt(other)) =>
          /\ Unwrap(flow.recovery_attempt).attempt_id
               # Unwrap(other.recovery_attempt).attempt_id
          /\ Len(attempts) = 2
    /\ (\E i, j \in 1..Len(intents) :
           i # j /\ intents[i].merchant_reference_id = intents[j].merchant_reference_id) =>
          /\ InvokedBy(flow, "create_intent")
          /\ InvokedBy(other, "create_intent")

\* C21 witness: both deliveries observed PaymentNotFound for one brand-new
\* merchant reference and both created an intent: the store holds two intents
\* under that reference.
C21_Witness ==
    /\ CreatedIntent(flow)
    /\ CreatedIntent(other)
    /\ Len(intents) = 2
    /\ intents[1].merchant_reference_id = intents[2].merchant_reference_id

\* C22: the flow issues its collaborator operations one after another in the
\* order sync, intent, attempt, schedule, insert, and a flow that has passed
\* the source check and has ended has ended in NoEffect, in Payment or in a
\* typed error.
C22_EndsInOneOfThree ==
    /\ \A i, j \in 1..Len(flow.calls) :
          i < j => PositionOf(flow.calls[i]) < PositionOf(flow.calls[j])
    /\ (flow.pc = "done" /\ flow.source_verified) =>
          flow.result.kind \in {"NoEffect", "Payment", "Err"}

\* The collaborator operations the flow awaits on other components.
RemoteOperations ==
    {"billing_sync", "fetch_intent", "create_intent", "resolve_payment_account",
     "fetch_attempt", "record_attempt", "compute_next_schedule", "insert_task"}

\* C23: within one flow each collaborator operation is invoked at most once,
\* whether it succeeds or fails.
C23_NoInternalRetry ==
    \A op \in RemoteOperations : Invocations(op) <= 1

\* C23 witness: a flow whose task insertion failed has ended having invoked
\* the insertion, and every operation before it, once.
C23_Witness ==
    /\ flow.pc = "done"
    /\ flow.result = Failed("ProcessTrackerResponseError")
    /\ Invocations("insert_task") = 1
    /\ Invocations("compute_next_schedule") = 1
    /\ Invocations("fetch_intent") = 1

\* The flow that returned before this one failed after it had asked for an
\* intent to be created or an attempt to be recorded.
FailedAfterWriting ==
    /\ other.result.kind \in {"Err", "Panic"}
    /\ InvokedBy(other, "create_intent") \/ InvokedBy(other, "record_attempt")

\* The delivery in progress names a merchant reference the store held an
\* intent of when the delivery arrived; it names a connector transaction id
\* the store held an attempt of its intent for.
RedeliversKnownReference ==
    /\ IsSome(flow.invoice_details)
    /\ ~Invoked("create_intent")
    /\ IntentsWithReference(Unwrap(flow.invoice_details).merchant_reference_id) # {}
RedeliversKnownTransaction ==
    /\ IsSome(flow.invoice_transaction_details)
    /\ IsSome(flow.payment_intent)
    /\ IsSome(ExtractedTransactionId)
    /\ ~Invoked("record_attempt")
    /\ AttemptsWith(Unwrap(flow.payment_intent).payment_id, ExtractedTransactionId) # {}

\* C24: after a flow that failed once it had created an intent or recorded an
\* attempt, a later delivery of the same webhook creates no second record:
\* the store never holds two intents of one merchant reference nor two
\* attempts of one intent with one connector transaction id; a delivery that
\* names a known reference does not reach create-intent and resolves the
\* intent the store holds, and one that names a known transaction id does not
\* reach record-attempt and resolves the attempt the store holds. For this
\* the store holds an attempt the flow recorded under the intent and the
\* connector transaction id the delivery named.
C24_RedeliveryCreatesNoSecondRecord ==
    /\ (/\ flow.pc = "attempt_resolved"
        /\ Invoked("record_attempt")
        /\ IsSome(ExtractedTransactionId)) =>
          AttemptsWith(Unwrap(flow.payment_intent).payment_id, ExtractedTransactionId)
            = {Unwrap(flow.recovery_attempt).attempt_id}
    /\ FailedAfterWriting =>
        /\ \A i, j \in 1..Len(intents) :
              intents[i].merchant_reference_id = intents[j].merchant_reference_id
                => i = j
        /\ \A i, j \in 1..Len(attempts) :
              (/\ attempts[i].payment_id = attempts[j].payment_id
               /\ IsSome(attempts[i].connector_transaction_id)
               /\ attempts[i].connector_transaction_id
                    = attempts[j].connector_transaction_id) => i = j
        /\ RedeliversKnownReference =>
              /\ flow.pc # "create_intent"
              /\ flow.pc = "intent_resolved" =>
                    Unwrap(flow.payment_intent).payment_id
                      \in IntentsWithReference(
                            Unwrap(flow.invoice_details).merchant_reference_id)
        /\ RedeliversKnownTransaction =>
              /\ flow.pc # "record_attempt"
              /\ flow.pc = "attempt_resolved" =>
                    /\ IsSome(flow.recovery_attempt)
                    /\ Unwrap(flow.recovery_attempt).attempt_id
                         \in AttemptsWith(Unwrap(flow.payment_intent).payment_id,
                                          ExtractedTransactionId)

\* C24 witness: the first flow created the intent, recorded the attempt and
\* then failed; the redelivery has found both and written nothing.
C24_Witness ==
    /\ other.result.kind = "Err"
    /\ InvokedBy(other, "create_intent")
    /\ InvokedBy(other, "record_attempt")
    /\ flow.pc = "attempt_resolved"
    /\ RedeliversKnownTransaction
    /\ ~Invoked("create_intent")
    /\ Len(intents) = 1
    /\ Len(attempts) = 1

\* C25: the identifier of a retry task is built from the runner, the fixed
\* workflow name and the intent id alone. Entries for one intent have one
\* identifier whatever their retry count, attempt id and schedule time, and
\* entries for different intents have different identifiers; so have the
\* entry a flow has built and every row of the process tracker.
C25_TaskIdFromIntentOnly ==
    /\ \A p1, p2 \in 1..MaxDeliveries, r1, r2 \in RetryCounts,
          a1, a2 \in 1..MaxDeliveries, t1, t2 \in ScheduleTimes :
          (ProcessTrackerNew(p1, r1, a1, t1).id = ProcessTrackerNew(p2, r2, a2, t2).id)
            <=> (p1 = p2)
    /\ IsSome(flow.process_tracker_entry) =>
          Unwrap(flow.process_tracker_entry).id
            = process_tracker_id("PASSIVE_RECOVERY_WORKFLOW", "EXECUTE_WORKFLOW",
                                 Unwrap(flow.recovery_intent).payment_id)
    /\ \A i \in 1..Len(process_tracker) :
          process_tracker[i].id
            = "PASSIVE_RECOVERY_WORKFLOW_EXECUTE_WORKFLOW_"
                \o get_string_repr(process_tracker[i].tracking_data.global_payment_id)

\* C25 witness: a task for intent 2 has been inserted under the identifier of
\* that intent.
C25_Witness ==
    /\ Len(process_tracker) = 1
    /\ process_tracker[1].tracking_data.global_payment_id = 2
    /\ process_tracker[1].id = "PASSIVE_RECOVERY_WORKFLOW_EXECUTE_WORKFLOW_pay_2"

\* How many of the two deliveries have returned Payment.
Scheduled ==
    (IF flow.result.kind = "Payment" THEN 1 ELSE 0)
      + (IF other.result.kind = "Payment" THEN 1 ELSE 0)

\* C26: two concurrent deliveries for one intent that have both passed the
\* gate and built their entries hold entries with one and the same task id,
\* and so have all rows of the process tracker for that intent. The flow
\* checks nothing before it inserts: every insertion the store accepts adds a
\* row, so the number of rows is the number of deliveries that returned
\* Payment, one or two as the store decides.
C26_BothInsertSameTaskId ==
    /\ (flow.pc = "insert_task" /\ other.pc = "insert_task") =>
          Unwrap(flow.process_tracker_entry).id = Unwrap(other.process_tracker_entry).id
    /\ \A i, j \in 1..Len(process_tracker) : process_tracker[i].id = process_tracker[j].id
    /\ Len(process_tracker) = Scheduled
    /\ tasks_added = Scheduled

\* C26 witness: both deliveries inserted; the store accepted both and holds
\* two rows with one task id.
C26_Witness ==
    /\ InvokedBy(flow, "insert_task")
    /\ InvokedBy(other, "insert_task")
    /\ Len(process_tracker) = 2
    /\ process_tracker[1].id = process_tracker[2].id

\* C27: attempt reconciliation never changes the id of the intent. With an
\* existing attempt found, the intent it returns is the intent it was given,
\* in id, status and metadata. With a new attempt recorded, the intent it
\* returns has the id of the intent it was given and the status and the
\* feature metadata of the record response.
C27_ReconciliationKeepsIntentId ==
    (/\ flow.pc = "attempt_resolved"
     /\ IsSome(flow.recovery_attempt)) =>
        /\ Unwrap(flow.recovery_intent).payment_id
             = Unwrap(flow.payment_intent).payment_id
        /\ ~Invoked("record_attempt") => flow.recovery_intent = flow.payment_intent
        /\ Invoked("record_attempt") =>
              /\ Unwrap(flow.recovery_intent).status
                   = IntentStatusFrom(Unwrap(flow.recovery_attempt).attempt_status)
              /\ Unwrap(flow.recovery_intent).feature_metadata = RecordedMetadata

\* C27 witness: a newly recorded attempt has changed the status and the
\* metadata of the intent and left its id.
C27_Witness ==
    /\ flow.pc = "attempt_resolved"
    /\ Invoked("record_attempt")
    /\ IsSome(flow.recovery_attempt)
    /\ Unwrap(flow.recovery_intent).status # Unwrap(flow.payment_intent).status
    /\ Unwrap(flow.recovery_intent).feature_metadata
         # Unwrap(flow.payment_intent).feature_metadata

\* C28: a flow that has asked the schedule-time provider has asked it for
\* attempt number retry count + 1, and when the provider returned no time the
\* flow has failed with ScheduleTimeFetchFailed without invoking insert-task.
C28_ScheduleTimeForNextAttempt ==
    Invoked("compute_next_schedule") =>
        /\ flow.schedule_attempt_number = Some(r_now + 1)
        /\ flow.schedule_time = None =>
              /\ flow.result = Failed("ScheduleTimeFetchFailed")
              /\ ~Invoked("insert_task")

\* C30: no flow aborts at the computation of the attempt number, and the
\* attempt number the schedule-time provider is asked for is retry count + 1
\* for every 16-bit retry count, 65535 included.
C30_AttemptNumberWithoutOverflow ==
    /\ flow.result # Panicked
    /\ IsSome(flow.schedule_attempt_number) =>
          Unwrap(flow.schedule_attempt_number) = Unwrap(flow.intent_retry_count) + 1

\* C29: the retry threshold and the retry count are resolved before the
\* action is dispatched, whatever the action: a flow that has ended in
\* NoEffect, in Payment or in the panic of an arm, or stands in the scheduling
\* branch, has resolved both, and a classified flow that lacks one has failed,
\* also with an action that schedules nothing. The intent such a flow created
\* and the attempt it recorded are in the store.
C29_LimitsResolvedForEveryAction ==
    /\ (\/ flow.result.kind \in {"NoEffect", "Payment", "Panic"}
        \/ flow.pc \in {"schedule", "insert_task"}) => BothResolved
    /\ (IsSome(flow.action) /\ ~BothResolved) =>
          /\ flow.result.kind = "Err"
          /\ flow.result.error \in {"BillingThresholdRetryCountFetchFailed",
                                    "RetryCountFetchFailed"}
          /\ Invoked("create_intent") =>
                /\ Unwrap(flow.recovery_intent).payment_id \in 1..Len(intents)
                /\ intents[Len(intents)].payment_id
                     = Unwrap(flow.recovery_intent).payment_id
          /\ Invoked("record_attempt") =>
                /\ Unwrap(flow.recovery_attempt).attempt_id \in 1..Len(attempts)
                /\ attempts[Unwrap(flow.recovery_attempt).attempt_id].payment_id
                     = Unwrap(flow.recovery_intent).payment_id

\* C29 witness: a delivery classified PendingPayment that created its intent
\* and recorded its attempt has failed for want of a retry threshold.
C29_Witness ==
    /\ flow.action = Some("PendingPayment")
    /\ flow.result = Failed("BillingThresholdRetryCountFetchFailed")
    /\ Invoked("create_intent")
    /\ Invoked("record_attempt")
    /\ Len(intents) = 1
    /\ Len(attempts) = 1

\* The delivery in hand is a transaction event whose extracted attempt data
\* carries no connector transaction id.
WithoutTransactionId ==
    /\ IsSome(flow.invoice_transaction_details)
    /\ ExtractedTransactionId = None

\* C31: a flow whose extracted attempt data carries no connector transaction
\* id matches no attempt at the lookup, whatever attempts the intent holds: the
\* lookup leads to the record call or fails with the attempt-fetch error; and
\* a record call that succeeds leaves one attempt more on the intent, the new
\* one being the flow's attempt. Delivery after delivery, n such flows leave n
\* attempts.
C31_NoTransactionIdRecordsNewAttempt ==
    [][ /\ (flow.pc = "fetch_attempt" /\ WithoutTransactionId) =>
              /\ flow'.recovery_attempt = None
              /\ \/ flow'.pc = "record_attempt"
                 \/ flow'.result = Failed("PaymentAttemptFetchFailed")
        /\ (/\ flow.pc = "record_attempt"
            /\ WithoutTransactionId
            /\ flow'.pc = "attempt_resolved") =>
              /\ Len(AttemptsOf(Unwrap(flow.payment_intent).payment_id))'
                   = Len(AttemptsOf(Unwrap(flow.payment_intent).payment_id)) + 1
              /\ Len(attempts') = Len(attempts) + 1
              /\ Unwrap(flow'.recovery_attempt).attempt_id = Len(attempts')
              /\ attempts'[Len(attempts')].payment_id
                   = Unwrap(flow.payment_intent).payment_id
              /\ attempts'[Len(attempts')].connector_transaction_id = None
      ]_vars

\* C31 witness: the second delivery of a webhook without a connector
\* transaction id has recorded the second attempt on the one intent.
C31_Witness ==
    /\ deliveries = 2
    /\ flow.pc = "attempt_resolved"
    /\ WithoutTransactionId
    /\ LastCall = "record_attempt"
    /\ Len(intents) = 1
    /\ Len(attempts) = 2
    /\ \A k \in 1..2 : /\ attempts[k].payment_id = Unwrap(flow.payment_intent).payment_id
                       /\ attempts[k].connector_transaction_id = None
    /\ Unwrap(flow.recovery_attempt).attempt_id = 2

\* A flow that invoked insert-task has returned, with insert-task its last and
\* only such operation; a Payment result comes from insert-task alone; a flow
\* that ended otherwise than in Payment or the task-persistence error never
\* invoked it.
InsertTaskComesLast ==
    /\ Invoked("insert_task") =>
          /\ flow.pc = "done"
          /\ LastCall = "insert_task"
          /\ Invocations("insert_task") = 1
          /\ flow.result.kind \in {"Payment", "Err"}
    /\ flow.result.kind = "Payment" => Invoked("insert_task")
    /\ (\/ flow.result.kind \in {"NoEffect", "Panic"}
        \/ /\ flow.result.kind = "Err"
           /\ flow.result.error # "ProcessTrackerResponseError") =>
          ~Invoked("insert_task")

\* The step that invokes insert-task ends in Payment exactly when the store
\* took the row, and in the task-persistence error, the store unchanged,
\* otherwise; no other step of a flow yields Payment.
PaymentIffInserted ==
    /\ (flow.pc = "insert_task" /\ flow' # flow) =>
          /\ flow'.calls = Append(flow.calls, "insert_task")
          /\ flow'.result.kind = "Payment" <=>
                process_tracker' = Append(process_tracker,
                                          Unwrap(flow.process_tracker_entry))
          /\ flow'.result.kind # "Payment" =>
                /\ flow'.result = Failed("ProcessTrackerResponseError")
                /\ process_tracker' = process_tracker
    /\ (flow.result.kind # "Payment" /\ flow'.result.kind = "Payment") =>
          flow.pc = "insert_task"

\* C32: in every flow insert-task is the last collaborator operation, the
\* result is Payment if and only if insert-task was invoked and the insertion
\* succeeded, and a flow ending in NoEffect or in an error other than the
\* task-persistence error never invoked insert-task.
C32_PaymentOnlyAfterInsertTask ==
    /\ []InsertTaskComesLast
    /\ [][PaymentIffInserted]_vars

\* C32 witness: the first delivery computed a schedule, inserted its task as
\* its last operation and returned Payment.
C32_Witness ==
    /\ deliveries = 1
    /\ flow.pc = "done"
    /\ flow.result.kind = "Payment"
    /\ Len(flow.calls) >= 2
    /\ flow.calls[Len(flow.calls) - 1] = "compute_next_schedule"
    /\ LastCall = "insert_task"
    /\ Len(process_tracker) = 1

====
